---- MODULE Spec2Model ----
(***************************************************************************)
(* A model of app.py, the MCA result processing script: the marks table    *)
(* read from Result.xlsx is cleaned, graded, aggregated into SGPA, given a *)
(* PASS/FAIL result and a dense rank, and projected into the fail counts   *)
(* and the overall topper list.                                            *)
(*                                                                         *)
(* Numbers.  A mark is a float of the source; the model keeps it in tenths *)
(* of a mark (39.9 is 399), so every comparison with a band edge is exact. *)
(* A float is a record [nan, v]: NaN is its own value, as in pandas.  SGPA *)
(* is kept in hundredths (4.17 is 417), the resolution round(x, 2) leaves. *)
(* A name is the sequence of its code points, compared as Python compares  *)
(* strings.                                                                *)
(***************************************************************************)
EXTENDS Integers, Sequences, FiniteSets, TLC

VARIABLES
    xlsx,        \* the rows of Result.xlsx, as pd.read_excel returns them
    df,          \* the data frame: a sequence of rows, columns added in place
    fail_counts, \* subject name -> number of rows with grade point 0
    topper_df,   \* the overall topper list
    pc           \* the position in the script

vars == <<xlsx, df, fail_counts, topper_df, pc>>

-----------------------------------------------------------------------------
(* Static reference data *)

subject_cols == <<101, 103, 105, 107, 109, 161, 163, 165, 167, 169, 171>>

Subjects == {subject_cols[k] : k \in DOMAIN subject_cols}

\* the credits with subject 101 at 3, as the other theory papers
CREDITS_3_for_101 ==
    (101 :> 3) @@ (103 :> 3) @@ (105 :> 3) @@ (107 :> 3) @@ (109 :> 3) @@
    (161 :> 1) @@ (163 :> 1) @@ (165 :> 1) @@ (167 :> 1) @@ (169 :> 3) @@
    (171 :> 1)

\* lines 36-48
CREDITS ==
    (101 :> 4) @@ (103 :> 3) @@ (105 :> 3) @@ (107 :> 3) @@ (109 :> 3) @@
    (161 :> 1) @@ (163 :> 1) @@ (165 :> 1) @@ (167 :> 1) @@ (169 :> 3) @@
    (171 :> 1)

SUBJECT_NAMES ==
    (101 :> "Discrete Structures") @@
    (103 :> "Computer Networks") @@
    (105 :> "Operating Systems with Linux") @@
    (107 :> "Database Management Systems") @@
    (109 :> "Object Oriented Programming with Java") @@
    (161 :> "Computer Networks Lab") @@
    (163 :> "Operating Systems Lab") @@
    (165 :> "DBMS Lab") @@
    (167 :> "OOP with Java Lab") @@
    (169 :> "Minor Project - I") @@
    (171 :> "Professional Proficiency - I")

-----------------------------------------------------------------------------
(* Values *)

\* n marks, in the model's tenths
Marks(n) == n * 10

\* a float holding v tenths, and the float NaN
Num(v) == [nan |-> FALSE, v |-> v]
NaN == [nan |-> TRUE, v |-> 0]

\* float >= number: every comparison with NaN is false
GE(x, n) == ~x.nan /\ x.v >= n

\* a spreadsheet cell: a number, a text, or an empty cell
NumCell(v) == [kind |-> "num", v |-> v, s |-> <<>>]
TextCell(s) == [kind |-> "text", v |-> 0, s |-> s]
EmptyCell == [kind |-> "empty", v |-> 0, s |-> <<>>]

DigitVal ==
    ("0" :> 0) @@ ("1" :> 1) @@ ("2" :> 2) @@ ("3" :> 3) @@ ("4" :> 4) @@
    ("5" :> 5) @@ ("6" :> 6) @@ ("7" :> 7) @@ ("8" :> 8) @@ ("9" :> 9)

IsDigits(s) == s # <<>> /\ \A k \in DOMAIN s : s[k] \in DOMAIN DigitVal

RECURSIVE DigitsValue(_, _)
DigitsValue(s, acc) ==
    IF s = <<>> THEN acc
    ELSE DigitsValue(Tail(s), acc * 10 + DigitVal[Head(s)])

\* The float a text parses to, NaN when it is no numeral.  The numerals read
\* are [sign] digits [. digit]: the model's tenths hold one decimal, and the
\* texts of the input set carry no more.
ParseFloat(s) ==
    LET signed == s # <<>> /\ Head(s) \in {"-", "+"}
        body   == IF signed THEN Tail(s) ELSE s
        sign   == IF signed /\ Head(s) = "-" THEN -1 ELSE 1
        dots   == {k \in DOMAIN body : body[k] = "."}
    IN  IF dots = {}
        THEN IF IsDigits(body) THEN Num(sign * DigitsValue(body, 0) * 10)
             ELSE NaN
        ELSE LET d    == CHOOSE k \in dots : \A j \in dots : k <= j
                 ip   == SubSeq(body, 1, d - 1)
                 fp   == SubSeq(body, d + 1, Len(body))
             IN  IF IsDigits(ip) /\ Len(fp) = 1 /\ IsDigits(fp)
                 THEN Num(sign * (DigitsValue(ip, 0) * 10 + DigitsValue(fp, 0)))
                 ELSE NaN

\* pd.to_numeric(..., errors="coerce") on one cell
to_numeric(cell) ==
    CASE cell.kind = "num"   -> Num(cell.v)
      [] cell.kind = "text"  -> ParseFloat(cell.s)
      [] cell.kind = "empty" -> NaN

\* the column left as to_numeric returns it
fillna_skipped(x, value) == x

\* Series.fillna(value) on one cell
fillna(x, value) == IF x.nan THEN Num(value) ELSE x

\* a cleaning that also stores a number outside 0..100 as 0
clean_cell_clamped(cell) ==
    LET x == fillna(to_numeric(cell), 0)
    IN  IF x.v < 0 \/ x.v > Marks(100) THEN Num(0) ELSE x

\* line 68 on one cell
clean_cell(cell) == fillna(to_numeric(cell), 0)

-----------------------------------------------------------------------------
(* The input tables *)

MaxOdd == 1
MaxStudents == 3

\* the marks just below and at each band edge, and around the nominal range
EdgeMarks == {40, 45, 50, 55, 65, 75, 90}
NumCells ==
    {NumCell(Marks(e) - 1) : e \in EdgeMarks} \cup
    {NumCell(Marks(e)) : e \in EdgeMarks} \cup
    {NumCell(Marks(-5)), NumCell(0), NumCell(Marks(100)), NumCell(Marks(105))}

\* "AB", "", "8a" are no numerals; "85", "39.9", "-5" are
NonNumericTexts == {<<"A", "B">>, <<>>, <<"8", "a">>}
NumericTexts == {<<"8", "5">>, <<"3", "9", ".", "9">>, <<"-", "5">>}

BaseCells ==
    NumCells \cup {TextCell(s) : s \in NonNumericTexts \cup NumericTexts}
             \cup {EmptyCell}

OddCells ==
    {NumCell(Marks(90)), NumCell(Marks(75)), NumCell(Marks(40) - 1),
     TextCell(<<"A", "B">>)}

\* "B" and "AZ"
Names == {<<66>>, <<65, 90>>}

\* a row of the sheet whose cells are all base, but for the cells of odd
RowMarks(base, odd) ==
    [sub \in Subjects |-> IF sub \in DOMAIN odd THEN odd[sub] ELSE base]

OddSets == {S \in SUBSET Subjects : Cardinality(S) <= MaxOdd}

\* one student, the marks varied
RowTables ==
    {<<[RollNo |-> 1, Name |-> <<66>>, marks |-> RowMarks(base, odd)]>> :
        base \in BaseCells, odd \in UNION {[S -> OddCells] : S \in OddSets}}

\* a cohort: each student has one mark in 101 and one in the other subjects
CohortMarks ==
    {RowMarks(b, 101 :> a) :
        a \in {TextCell(<<"A", "B">>), NumCell(Marks(90))},
        b \in {NumCell(Marks(40)), NumCell(Marks(90))}}

CohortTables ==
    UNION {
        {[i \in 1..n |-> [RollNo |-> i, Name |-> nm[i], marks |-> mk[i]]] :
            nm \in [1..n -> Names], mk \in [1..n -> CohortMarks]} :
        n \in 1..MaxStudents}

-----------------------------------------------------------------------------
(* The script *)

Init ==
    /\ xlsx \in RowTables \cup CohortTables
    /\ df = <<>>
    /\ fail_counts = <<>>
    /\ topper_df = <<>>
    /\ pc = "load"

\* line 25: df = load_data()
LoadData ==
    /\ pc = "load"
    /\ df' = xlsx
    /\ pc' = "clean"
    /\ UNCHANGED <<xlsx, fail_counts, topper_df>>

\* lines 67-68: every subject column through to_numeric and fillna(0)
CleanMarks ==
    /\ pc = "clean"
    /\ df' = [i \in DOMAIN df |->
                [df[i] EXCEPT !.marks =
                    [sub \in Subjects |-> clean_cell(df[i].marks[sub])]]]
    /\ pc' = "grades"
    /\ UNCHANGED <<xlsx, fail_counts, topper_df>>

\* the bands with > for >=: each lower edge falls into the band below
grade_and_point_strict(marks) ==
    IF GE(marks, Marks(90) + 1) THEN <<"O", 10>>
    ELSE IF GE(marks, Marks(75) + 1) THEN <<"A+", 9>>
    ELSE IF GE(marks, Marks(65) + 1) THEN <<"A", 8>>
    ELSE IF GE(marks, Marks(55) + 1) THEN <<"B+", 7>>
    ELSE IF GE(marks, Marks(50) + 1) THEN <<"B", 6>>
    ELSE IF GE(marks, Marks(45) + 1) THEN <<"C", 5>>
    ELSE IF GE(marks, Marks(40) + 1) THEN <<"P", 4>>
    ELSE <<"F", 0>>

\* lines 74-90
grade_and_point(marks) ==
    IF GE(marks, Marks(90)) THEN <<"O", 10>>
    ELSE IF GE(marks, Marks(75)) THEN <<"A+", 9>>
    ELSE IF GE(marks, Marks(65)) THEN <<"A", 8>>
    ELSE IF GE(marks, Marks(55)) THEN <<"B+", 7>>
    ELSE IF GE(marks, Marks(50)) THEN <<"B", 6>>
    ELSE IF GE(marks, Marks(45)) THEN <<"C", 5>>
    ELSE IF GE(marks, Marks(40)) THEN <<"P", 4>>
    ELSE <<"F", 0>>

\* lines 96-98: the Grade and GP columns of every subject
ApplyGrades ==
    /\ pc = "grades"
    /\ df' = [i \in DOMAIN df |->
                df[i] @@
                [Grade |-> [sub \in Subjects |->
                                grade_and_point(df[i].marks[sub])[1]],
                 GP    |-> [sub \in Subjects |->
                                grade_and_point(df[i].marks[sub])[2]]]]
    /\ pc' = "sgpa"
    /\ UNCHANGED <<xlsx, fail_counts, topper_df>>

\* round(num / den, 2) in hundredths, for num >= 0 and den > 0.  Python
\* rounds the float to the nearest hundredth, and a tie to the even one; the
\* quotients of this script that tie are odd multiples of 1/8, which a float
\* holds exactly, so the tie is decided on the exact value.
round_2(num, den) ==
    LET q == (num * 100) \div den
        r == (num * 100) % den
    IN  IF 2 * r < den THEN q
        ELSE IF 2 * r > den THEN q + 1
        ELSE IF q % 2 = 0 THEN q ELSE q + 1

\* round(num / den, 1), in hundredths
round_1(num, den) ==
    LET q == (num * 10) \div den
        r == (num * 10) % den
    IN  10 * (IF 2 * r < den THEN q
              ELSE IF 2 * r > den THEN q + 1
              ELSE IF q % 2 = 0 THEN q ELSE q + 1)

\* the quotient cut to two decimals instead of rounded
trunc_2(num, den) == (num * 100) \div den

\* lines 109-113: the loop over subject_cols, from its k-th subject on
RECURSIVE sgpa_loop(_, _, _, _)
sgpa_loop(row, k, total_ci_gi, total_credits) ==
    IF k > Len(subject_cols) THEN <<total_ci_gi, total_credits>>
    ELSE LET sub    == subject_cols[k]
             credit == CREDITS[sub]
             gp     == row.GP[sub]
         IN  sgpa_loop(row, k + 1, total_ci_gi + credit * gp,
                       total_credits + credit)

\* the quotient cut, not rounded
calculate_sgpa_trunc(row) ==
    LET t == sgpa_loop(row, 1, 0, 0) IN trunc_2(t[1], t[2])

\* the quotient rounded to one decimal
calculate_sgpa_1dp(row) ==
    LET t == sgpa_loop(row, 1, 0, 0) IN round_1(t[1], t[2])

\* lines 105-115
calculate_sgpa(row) ==
    LET t == sgpa_loop(row, 1, 0, 0) IN round_2(t[1], t[2])

\* lines 118-119: the SGPA column, and CGPA its copy
ComputeSGPA ==
    /\ pc = "sgpa"
    /\ df' = [i \in DOMAIN df |->
                LET sgpa == calculate_sgpa(df[i])
                IN  df[i] @@ [SGPA |-> sgpa, CGPA |-> sgpa]]
    /\ pc' = "result"
    /\ UNCHANGED <<xlsx, fail_counts, topper_df>>

\* DataFrame.min(axis=1) over the GP columns of one row
min_gp(row) ==
    CHOOSE m \in {row.GP[sub] : sub \in Subjects} :
        \A sub \in Subjects : m <= row.GP[sub]

\* a result read off the SGPA: PASS from 4.00 up
result_of_by_sgpa(row) == IF row.SGPA >= 400 THEN "PASS" ELSE "FAIL"

\* lines 124-126 on one row
result_of(row) == IF min_gp(row) >= 4 THEN "PASS" ELSE "FAIL"

ComputeResult ==
    /\ pc = "result"
    /\ df' = [i \in DOMAIN df |-> df[i] @@ [Result |-> result_of(df[i])]]
    /\ pc' = "rank"
    /\ UNCHANGED <<xlsx, fail_counts, topper_df>>

\* the values of a set, greatest first
RECURSIVE descending(_)
descending(S) ==
    IF S = {} THEN <<>>
    ELSE LET m == CHOOSE x \in S : \A y \in S : y <= x
         IN  <<m>> \o descending(S \ {m})

\* Series.rank(ascending=False, method="min") at value v: one more than the
\* number of rows above it
min_rank(values, v) ==
    1 + Cardinality({i \in DOMAIN values : values[i] > v})

\* Series.rank(ascending=False, method="dense") at value v: its place among
\* the distinct values of the column, greatest first
dense_rank(values, v) ==
    LET order == descending({values[i] : i \in DOMAIN values})
    IN  CHOOSE k \in DOMAIN order : order[k] = v

\* line 131
ComputeRank ==
    /\ pc = "rank"
    /\ LET sgpas == [i \in DOMAIN df |-> df[i].SGPA]
       IN  df' = [i \in DOMAIN df |->
                    df[i] @@ [Rank |-> dense_rank(sgpas, df[i].SGPA)]]
    /\ pc' = "analytics"
    /\ UNCHANGED <<xlsx, fail_counts, topper_df>>

\* lines 186-189
ClassAnalytics ==
    /\ pc = "analytics"
    /\ fail_counts' =
          [name \in {SUBJECT_NAMES[sub] : sub \in Subjects} |->
              LET sub == CHOOSE s \in Subjects : SUBJECT_NAMES[s] = name
              IN  Cardinality({i \in DOMAIN df : df[i].GP[sub] = 0})]
    /\ pc' = "topper"
    /\ UNCHANGED <<xlsx, df, topper_df>>

\* a < b on strings: Python compares them code point by code point, and a
\* proper prefix is the smaller
RECURSIVE str_less(_, _)
str_less(a, b) ==
    IF b = <<>> THEN FALSE
    ELSE IF a = <<>> THEN TRUE
    ELSE IF Head(a) # Head(b) THEN Head(a) < Head(b)
    ELSE str_less(Tail(a), Tail(b))

\* the order by SGPA alone, without the name
sorts_before_by_sgpa(a, b) == a.SGPA > b.SGPA

\* the order with SGPA ascending
sorts_before_ascending(a, b) ==
    \/ a.SGPA < b.SGPA
    \/ a.SGPA = b.SGPA /\ str_less(a.Name, b.Name)

\* a sorts strictly before b under by=["SGPA", "Name"],
\* ascending=[False, True]
sorts_before(a, b) ==
    \/ a.SGPA > b.SGPA
    \/ a.SGPA = b.SGPA /\ str_less(a.Name, b.Name)

\* row r put into the sorted rows behind every row it does not sort before
insert_row(sorted, r) ==
    LET before == {k \in DOMAIN sorted : sorts_before(r, sorted[k])}
        at     == IF before = {} THEN Len(sorted) + 1
                  ELSE CHOOSE k \in before : \A j \in before : k <= j
    IN  SubSeq(sorted, 1, at - 1) \o <<r>> \o SubSeq(sorted, at, Len(sorted))

\* DataFrame.sort_values on the first n rows of frame.  pandas sorts on
\* several columns with a stable lexsort: rows with equal keys keep the
\* order they had in frame.
RECURSIVE sort_rows(_, _)
sort_rows(frame, n) ==
    IF n = 0 THEN <<>> ELSE insert_row(sort_rows(frame, n - 1), frame[n])

\* lines 204-209: sort_values, reset_index, Overall Rank = index + 1
overall_toppers(frame) ==
    LET sorted == sort_rows(frame, Len(frame))
    IN  [k \in DOMAIN sorted |-> sorted[k] @@ [OverallRank |-> k]]

OverallTopperList ==
    /\ pc = "topper"
    /\ topper_df' = overall_toppers(df)
    /\ pc' = "done"
    /\ UNCHANGED <<xlsx, df, fail_counts>>

Next ==
    \/ LoadData
    \/ CleanMarks
    \/ ApplyGrades
    \/ ComputeSGPA
    \/ ComputeResult
    \/ ComputeRank
    \/ ClassAnalytics
    \/ OverallTopperList

Spec == Init /\ [][Next]_vars

-----------------------------------------------------------------------------
(* Where the script stands *)

Cleaned == pc \in {"grades", "sgpa", "result", "rank", "analytics", "topper", "done"}
Graded == pc \in {"sgpa", "result", "rank", "analytics", "topper", "done"}
HasSGPA == pc \in {"result", "rank", "analytics", "topper", "done"}
HasResult == pc \in {"rank", "analytics", "topper", "done"}
HasRank == pc \in {"analytics", "topper", "done"}
Done == pc = "done"

Rows == DOMAIN df

\* a source cell that is no number: empty, or a text that is no numeral
NonNumeric(cell) ==
    \/ cell.kind = "empty"
    \/ cell.kind = "text" /\ cell.s \in NonNumericTexts

-----------------------------------------------------------------------------
(* C1 *)

\* C1: every graded cell carries the grade and the grade point of the band
\* its mark lies in: >= 90 (O, 10), 75 to below 90 (A+, 9), 65 to below 75
\* (A, 8), 55 to below 65 (B+, 7), 50 to below 55 (B, 6), 45 to below 50
\* (C, 5), 40 to below 45 (P, 4), below 40 (F, 0); each band holds its lower
\* edge, and the mark is compared as it is, unrounded (39.9 is F).
C1_GradeBands ==
    Graded =>
        \A i \in Rows : \A sub \in Subjects :
            LET m == df[i].marks[sub].v
                g == <<df[i].Grade[sub], df[i].GP[sub]>>
            IN  /\ (m >= 900) <=> (g = <<"O", 10>>)
                /\ (m >= 750 /\ m < 900) <=> (g = <<"A+", 9>>)
                /\ (m >= 650 /\ m < 750) <=> (g = <<"A", 8>>)
                /\ (m >= 550 /\ m < 650) <=> (g = <<"B+", 7>>)
                /\ (m >= 500 /\ m < 550) <=> (g = <<"B", 6>>)
                /\ (m >= 450 /\ m < 500) <=> (g = <<"C", 5>>)
                /\ (m >= 400 /\ m < 450) <=> (g = <<"P", 4>>)
                /\ (m < 400) <=> (g = <<"F", 0>>)

\* a graded row holding the mark 40 (P, 4) beside the mark 39.9 (F, 0)
C1_Witness ==
    /\ Graded
    /\ \E i \in Rows : \E s1, s2 \in Subjects :
        /\ df[i].marks[s1].v = 400 /\ df[i].Grade[s1] = "P" /\ df[i].GP[s1] = 4
        /\ df[i].marks[s2].v = 399 /\ df[i].Grade[s2] = "F" /\ df[i].GP[s2] = 0

-----------------------------------------------------------------------------
(* C2 *)

\* the credit-weighted grade points of a row, subject by subject
C2_WeightedPoints(row) ==
      CREDITS[101] * row.GP[101] + CREDITS[103] * row.GP[103]
    + CREDITS[105] * row.GP[105] + CREDITS[107] * row.GP[107]
    + CREDITS[109] * row.GP[109] + CREDITS[161] * row.GP[161]
    + CREDITS[163] * row.GP[163] + CREDITS[165] * row.GP[165]
    + CREDITS[167] * row.GP[167] + CREDITS[169] * row.GP[169]
    + CREDITS[171] * row.GP[171]

\* C2: every SGPA is a hundredth nearest to (sum over the 11 subjects of
\* credit * grade point) / 24, either hundredth when two are equally near;
\* the loop adds up all 11 subjects and its credit total is 24.
C2_SgpaFormula ==
    HasSGPA =>
        \A i \in Rows :
            LET s    == C2_WeightedPoints(df[i])
                loop == sgpa_loop(df[i], 1, 0, 0)
                err  == 24 * df[i].SGPA - 100 * s
            IN  /\ loop = <<s, 24>>
                /\ -12 <= err /\ err <= 12

\* a row whose quotient lies midway between two hundredths
C2_Witness ==
    /\ HasSGPA
    /\ \E i \in Rows : (100 * C2_WeightedPoints(df[i])) % 24 = 12

-----------------------------------------------------------------------------
(* C3 *)

C3_Row(i) ==
    /\ df[i].marks[101] = Num(900)
    /\ \A sub \in Subjects \ {101} : df[i].marks[sub] = Num(400)

\* C3 as claimed: a student with 90 in subject 101 and exactly 40 in every
\* other subject has SGPA 4.17 and result PASS.
C3_Example ==
    HasResult =>
        \A i \in Rows : C3_Row(i) => df[i].SGPA = 417 /\ df[i].Result = "PASS"

\* C3 amended: a student with 90 in subject 101 and exactly 40 in every other
\* subject has SGPA 5.00, which is (4 * 10 + 20 * 4) / 24 = 120 / 24, and
\* result PASS.
C3_ExampleAmended ==
    HasResult =>
        \A i \in Rows : C3_Row(i) => df[i].SGPA = 500 /\ df[i].Result = "PASS"

\* the student of the example, with the script past the result column
C3_Witness ==
    /\ HasResult
    /\ \E i \in Rows :
        C3_Row(i) /\ df[i].GP[101] = 10 /\ C2_WeightedPoints(df[i]) = 120

-----------------------------------------------------------------------------
(* C4 *)

\* C4: a result is FAIL exactly when some subject's grade point is 0, which
\* is exactly when some grade point is below 4, and PASS otherwise, whatever
\* the SGPA.
C4_ResultIffFailedSubject ==
    HasResult =>
        \A i \in Rows :
            /\ df[i].Result \in {"PASS", "FAIL"}
            /\ (df[i].Result = "FAIL") <=> (\E sub \in Subjects : df[i].GP[sub] = 0)
            /\ (df[i].Result = "FAIL") <=> (\E sub \in Subjects : df[i].GP[sub] < 4)

\* a cohort where a failed student has a higher SGPA than a passed one
C4_Witness ==
    /\ HasResult
    /\ \E i, j \in Rows :
        /\ df[i].Result = "FAIL" /\ df[j].Result = "PASS"
        /\ df[i].SGPA > df[j].SGPA

-----------------------------------------------------------------------------
(* C5 *)

C5_SgpaValues == {df[j].SGPA : j \in Rows}

\* C5: every rank is 1 + the number of distinct SGPA values of the cohort
\* above the student's; equal SGPA gives equal rank, the ranks in use are
\* exactly 1..K for K distinct SGPA values, and failed students are ranked
\* with the rest.
C5_DenseRank ==
    HasRank =>
        /\ \A i \in Rows :
            df[i].Rank = 1 + Cardinality({v \in C5_SgpaValues : v > df[i].SGPA})
        /\ \A i, j \in Rows : df[i].SGPA = df[j].SGPA => df[i].Rank = df[j].Rank
        /\ {df[i].Rank : i \in Rows} = 1..Cardinality(C5_SgpaValues)

\* two students tied at the top and a failed third behind them at rank 2
C5_Witness ==
    /\ HasRank
    /\ \E i, j, k \in Rows :
        /\ i # j /\ df[i].SGPA = df[j].SGPA /\ df[i].Rank = 1
        /\ df[k].SGPA < df[i].SGPA /\ df[k].Rank = 2 /\ df[k].Result = "FAIL"

-----------------------------------------------------------------------------
(* C6 *)

\* C6: the overall topper list holds every student of the cohort exactly
\* once, by SGPA descending and then name ascending, and the row at
\* position k has Overall Rank k, so the ranks are 1..N without repeats.
C6_Leaderboard ==
    Done =>
        /\ Len(topper_df) = Len(df)
        /\ \A i \in Rows :
            Cardinality({k \in DOMAIN topper_df :
                            topper_df[k] = df[i] @@ [OverallRank |-> k]}) = 1
        /\ \A k \in DOMAIN topper_df : topper_df[k].OverallRank = k
        /\ \A k, l \in DOMAIN topper_df :
            k < l =>
                \/ topper_df[k].SGPA > topper_df[l].SGPA
                \/ /\ topper_df[k].SGPA = topper_df[l].SGPA
                   /\ ~str_less(topper_df[l].Name, topper_df[k].Name)

\* three students, the last of the sheet first in the list, and two of equal
\* SGPA put in the order of their names against the order of the sheet
C6_Witness ==
    /\ Done
    /\ Len(df) = 3
    /\ topper_df[1].RollNo = 3
    /\ \E i, j \in Rows :
        /\ i < j /\ df[i].SGPA = df[j].SGPA /\ str_less(df[j].Name, df[i].Name)

-----------------------------------------------------------------------------
(* C7 *)

\* the sheet's rows taken in the order p
C7_Reordered(p) == [k \in DOMAIN df |-> df[p[k]]]

\* the list does not depend on the order of the rows of the sheet
C7_OrderIndependent ==
    \A p \in Permutations(Rows) : overall_toppers(C7_Reordered(p)) = topper_df

C7_KeysDistinct ==
    \A i, j \in Rows :
        i # j => ~(df[i].SGPA = df[j].SGPA /\ df[i].Name = df[j].Name)

\* C7 as claimed: no two records of a cohort share the (SGPA, name) key, and
\* the list with its Overall Ranks does not depend on the order of the rows.
C7_StrictTotalOrder == Done => C7_KeysDistinct /\ C7_OrderIndependent

\* C7 amended: names may repeat, so two records may share the (SGPA, name)
\* key; in a cohort where no two records share it, the list and every
\* Overall Rank are decided by SGPA and name, whatever the order of the rows.
C7_TotalOrderWhenKeysDistinct == Done /\ C7_KeysDistinct => C7_OrderIndependent

\* three students with distinct keys, two of them tied on SGPA and listed in
\* the sheet against the order of their names
C7_Witness ==
    /\ Done
    /\ Len(df) = 3
    /\ C7_KeysDistinct
    /\ \E i, j \in Rows :
        /\ i < j /\ df[i].SGPA = df[j].SGPA /\ str_less(df[j].Name, df[i].Name)

-----------------------------------------------------------------------------
(* C8 *)

\* C8: the cleaning goes through on every sheet, whatever its cells hold; a
\* cell that is empty or no numeral is stored as 0, whatever the other cells
\* of its row are, then graded F with grade point 0, and its student's result is FAIL.
C8_CoerceNeverReject ==
    /\ pc = "clean" => ENABLED CleanMarks
    /\ \A i \in Rows : \A sub \in Subjects :
        NonNumeric(xlsx[i].marks[sub]) =>
            /\ Cleaned => df[i].marks[sub] = Num(0)
            /\ Graded => df[i].Grade[sub] = "F" /\ df[i].GP[sub] = 0
            /\ HasResult => df[i].Result = "FAIL"

\* a failed student with one cell that is no number and 100 everywhere else
C8_Witness ==
    /\ HasResult
    /\ \E i \in Rows : \E sub \in Subjects :
        /\ NonNumeric(xlsx[i].marks[sub])
        /\ \A other \in Subjects \ {sub} : df[i].marks[other] = Num(1000)
        /\ df[i].Result = "FAIL"

-----------------------------------------------------------------------------
(* C9 *)

\* C9 as claimed: after the cleaning every stored mark lies in 0..100.
C9_MarksInRange ==
    Cleaned =>
        \A i \in Rows : \A sub \in Subjects :
            /\ ~df[i].marks[sub].nan
            /\ df[i].marks[sub].v >= 0 /\ df[i].marks[sub].v <= 1000

\* C9 amended: after the cleaning every stored mark is a number; a cell that
\* is empty or no numeral is stored as 0, and a number is stored as it is,
\* also when it is negative or above 100.
C9_NumbersKept ==
    Cleaned =>
        \A i \in Rows : \A sub \in Subjects :
            LET cell == xlsx[i].marks[sub]
                m    == df[i].marks[sub]
            IN  /\ ~m.nan
                /\ NonNumeric(cell) => m.v = 0
                /\ cell.kind = "num" => m.v = cell.v
                /\ cell = TextCell(<<"-", "5">>) => m.v = -50
                /\ cell = TextCell(<<"8", "5">>) => m.v = 850
                /\ cell = TextCell(<<"3", "9", ".", "9">>) => m.v = 399

\* a cleaned sheet holding the mark 105, as the sheet gave it
C9_Witness ==
    /\ Cleaned
    /\ \E i \in Rows : \E sub \in Subjects :
        /\ xlsx[i].marks[sub].kind = "num"
        /\ df[i].marks[sub].v = 1050

-----------------------------------------------------------------------------
(* C10 *)

\* C10: every SGPA lies in 0..10, and it is 10 exactly when the student's
\* mark is at least 90 in each of the 11 subjects.
C10_SgpaRange ==
    HasSGPA =>
        \A i \in Rows :
            /\ 0 <= df[i].SGPA /\ df[i].SGPA <= 1000
            /\ (df[i].SGPA = 1000) <=>
                    (\A sub \in Subjects : df[i].marks[sub].v >= 900)

\* one grade point short of all O: 239 / 24 rounds to 9.96, not to 10
C10_Witness ==
    /\ HasSGPA
    /\ \E i \in Rows : df[i].SGPA = 996 /\ C2_WeightedPoints(df[i]) = 239

====
